---------------------------- MODULE Spec2Model ----------------------------
(***************************************************************************)
(* A model of scanreader/multiroi.py: ROI, Scanfield, Field and Position.  *)
(*                                                                         *)
(* Degrees (centers and sizes in scan angle degrees) are Python floats in  *)
(* the source.  Here they are integers counting units of 1e-8 degree, so   *)
(* that numpy's absolute tolerance (atol = 1e-8) is exactly one unit and   *)
(* its relative tolerance (rtol = 1e-5) is 1/RtolInv.  Sizes in degrees    *)
(* are even numbers of units, which makes the code's "/ 2" exact.          *)
(***************************************************************************)
EXTENDS Integers, Sequences, FiniteSets

VARIABLES
    fields,        \* the Field objects of the heap: id -> Field attributes
    orig,          \* history: the heap as it was constructed
    absorbed,      \* history: id -> number of join_with calls that built the Field
    pxok,          \* history: id -> every one of those joins met equal pixel edges
    abuts,         \* history: id -> every one of those joins was of Fields that abut
    njoins,        \* history: join_with calls made so far
    pair,          \* the two Fields handed to the contiguity classifier
    position,      \* what the classifier answered, in both directions
    roi_info,      \* ROI.roi_info: the raw ROI definition of the TIFF header
    _scanfields,   \* ROI._scanfields: not created yet, or the cached list
    __debug__,     \* Python's __debug__: assert statements run (no -O switch)
    query          \* the last get_field_at call: its depth and its outcome

vars == <<fields, orig, absorbed, pxok, abuts, njoins, pair, position,
          roi_info, _scanfields, __debug__, query>>

None == "None"

---------------------------------------------------------------------------
(* Units and numpy.isclose *)

\* one degree, in units of 1e-8 degree
Deg == 10000 * 10000
U == Deg \div 2

\* numpy.isclose's default atol = 1e-8 (one unit) and rtol = 1e-5 (1 / RtolInv)
Atol == 1
RtolInv == 100000

Abs(n) == IF n < 0 THEN -n ELSE n

\* np.isclose(a, b): |a - b| <= atol + rtol * |b|; the tolerance scales with b
\* only.  Differences above 20000 units are far outside any tolerance the
\* model's magnitudes allow (|b| < 19 degrees), and are cut before multiplying.
isclose(a, b) ==
    LET d == Abs(a - b)
    IN  d <= 20000 /\ RtolInv * d <= RtolInv * Atol + Abs(b)

---------------------------------------------------------------------------
(* class Position *)

NONCONTIGUOUS == 0
ABOVE == 1
BELOW == 2
LEFT == 3
RIGHT == 4

---------------------------------------------------------------------------
(* class Field *)

\* slice(start, stop).  roi is a history field: the ROI whose Field first held
\* the slice; a shifted copy of a slice keeps it.
slice(start, stop, roi) == [start |-> start, stop |-> stop, roi |-> roi]

\* Field.__init__: the fourteen attributes
Field(height_px, width_px, depth, y_center_coordinate, x_center_coordinate, height_in_degrees, width_in_degrees, yslices, xslices, output_yslices, output_xslices, slice_id, roi_ids, offsets) ==
    [height_px |-> height_px, width_px |-> width_px, depth |-> depth,
     y_center_coordinate |-> y_center_coordinate,
     x_center_coordinate |-> x_center_coordinate,
     height_in_degrees |-> height_in_degrees,
     width_in_degrees |-> width_in_degrees,
     yslices |-> yslices, xslices |-> xslices,
     output_yslices |-> output_yslices, output_xslices |-> output_xslices,
     slice_id |-> slice_id, roi_ids |-> roi_ids, offsets |-> offsets]

\* Field.has_contiguous_subfields
has_contiguous_subfields(self) == Len(self.xslices) > 1

\* Field._type_of_contiguity: how field2 lies relative to self.  The second
\* "if" overwrites whatever the first one found.
_type_of_contiguity(self, field2) ==
    LET vertical ==
            IF isclose(self.width_in_degrees, field2.width_in_degrees)
            THEN LET expected_distance == self.height_in_degrees \div 2
                                          + field2.height_in_degrees \div 2
                     above == IF isclose(self.y_center_coordinate,
                                         field2.y_center_coordinate + expected_distance)
                              THEN ABOVE ELSE NONCONTIGUOUS
                 IN  IF isclose(field2.y_center_coordinate,
                                self.y_center_coordinate + expected_distance)
                     THEN BELOW ELSE above
            ELSE NONCONTIGUOUS
    IN  IF isclose(self.height_in_degrees, field2.height_in_degrees)
        THEN LET expected_distance == self.width_in_degrees \div 2
                                      + field2.width_in_degrees \div 2
             IN  IF isclose(self.x_center_coordinate,
                            field2.x_center_coordinate + expected_distance)
                 THEN LEFT ELSE RIGHT
        ELSE vertical

\* Field.is_contiguous_to
is_contiguous_to(self, field2) ==
    ~(_type_of_contiguity(self, field2) = NONCONTIGUOUS)

\* a shift that was forgotten: the slices as they are
not_shifted(slices, n) == slices

\* [slice(s.start + n, s.stop + n) for s in slices]
shifted(slices, n) ==
    [i \in DOMAIN slices |->
        [slices[i] EXCEPT !.start = @ + n, !.stop = @ + n]]

\* stacking that lists the placements from the top of the output down (field2's
\* first when field2 is above), out of step with roi_ids and the source slices
stacked_top_first(self, field2, contiguity) ==
    LET new_y == IF contiguity = ABOVE
                 THEN field2.y_center_coordinate + self.height_in_degrees \div 2
                 ELSE self.y_center_coordinate + field2.height_in_degrees \div 2
        output_yslices1 == IF contiguity = ABOVE
                           THEN field2.output_yslices
                           ELSE self.output_yslices
        output_yslices2 == IF contiguity = ABOVE
                           THEN [i \in DOMAIN self.output_yslices |->
                                    [self.output_yslices[i] EXCEPT
                                        !.start = @ + field2.height_px,
                                        !.stop = @ + field2.height_px]]
                           ELSE [i \in DOMAIN field2.output_yslices |->
                                    [field2.output_yslices[i] EXCEPT
                                        !.start = @ + self.height_px,
                                        !.stop = @ + self.height_px]]
    IN  [self EXCEPT
            !.y_center_coordinate = new_y,
            !.height_px = @ + field2.height_px,
            !.height_in_degrees = @ + field2.height_in_degrees,
            !.output_yslices = output_yslices1 \o output_yslices2,
            !.output_xslices = IF contiguity = ABOVE
                               THEN field2.output_xslices \o self.output_xslices
                               ELSE self.output_xslices \o field2.output_xslices]

\* join_with, lines 379-396: field2 is above or below self
stacked(self, field2, contiguity) ==
    LET new_y == IF contiguity = ABOVE
                 THEN field2.y_center_coordinate + self.height_in_degrees \div 2
                 ELSE self.y_center_coordinate + field2.height_in_degrees \div 2
        output_yslices1 == IF contiguity = ABOVE
                           THEN shifted(self.output_yslices, field2.height_px)
                           ELSE self.output_yslices
        output_yslices2 == IF contiguity = ABOVE
                           THEN field2.output_yslices
                           ELSE shifted(field2.output_yslices, self.height_px)
    IN  [self EXCEPT
            !.y_center_coordinate = new_y,
            !.height_px = @ + field2.height_px,
            !.height_in_degrees = @ + field2.height_in_degrees,
            !.output_yslices = output_yslices1 \o output_yslices2,
            !.output_xslices = self.output_xslices \o field2.output_xslices]

\* join_with, lines 397-415: field2 is to the left or to the right of self
sided(self, field2, contiguity) ==
    LET new_x == IF contiguity = LEFT
                 THEN field2.x_center_coordinate + self.width_in_degrees \div 2
                 ELSE self.x_center_coordinate + field2.width_in_degrees \div 2
        output_xslices1 == IF contiguity = LEFT
                           THEN shifted(self.output_xslices, field2.width_px)
                           ELSE self.output_xslices
        output_xslices2 == IF contiguity = LEFT
                           THEN field2.output_xslices
                           ELSE shifted(field2.output_xslices, self.width_px)
    IN  [self EXCEPT
            !.x_center_coordinate = new_x,
            !.width_px = @ + field2.width_px,
            !.width_in_degrees = @ + field2.width_in_degrees,
            !.output_yslices = self.output_yslices \o field2.output_yslices,
            !.output_xslices = output_xslices1 \o output_xslices2]

\* the appends without the last one: offsets stay the receiver's
appended_but_offsets(self, field2) ==
    [self EXCEPT
        !.yslices = @ \o field2.yslices,
        !.xslices = @ \o field2.xslices,
        !.roi_ids = @ \o field2.roi_ids]

\* join_with, lines 417-423: the lists appended whatever the contiguity
appended(self, field2) ==
    [self EXCEPT
        !.yslices = @ \o field2.yslices,
        !.xslices = @ \o field2.xslices,
        !.roi_ids = @ \o field2.roi_ids,
        !.offsets = @ \o field2.offsets]

\* what self is after self.join_with(field2)
joined(self, field2) ==
    LET contiguity == _type_of_contiguity(self, field2)
        s1 == IF contiguity \in {ABOVE, BELOW}
              THEN stacked(self, field2, contiguity) ELSE self
        s2 == IF contiguity \in {LEFT, RIGHT}
              THEN sided(s1, field2, contiguity) ELSE s1
    IN  appended(s2, field2)

\* a join that stores the moved placement back into field2 as well
join_with_moving_field2(heap, a, b) ==
    LET contiguity == _type_of_contiguity(heap[a], heap[b])
    IN  [heap EXCEPT
            ![a] = joined(heap[a], heap[b]),
            ![b] = IF contiguity = BELOW
                   THEN [@ EXCEPT !.output_yslices = shifted(@, heap[a].height_px)]
                   ELSE IF contiguity = RIGHT
                   THEN [@ EXCEPT !.output_xslices = shifted(@, heap[a].width_px)]
                   ELSE @]

\* Field.join_with on the heap: heap[a].join_with(heap[b]).  Every list the
\* method stores is a new list ("+" and a comprehension), so only a changes.
join_with(heap, a, b) ==
    [heap EXCEPT ![a] = joined(heap[a], heap[b])]

---------------------------------------------------------------------------
(* class Scanfield *)

\* Scanfield.__init__
Scanfield(height_px, width_px, depth, y_center_coordinate, x_center_coordinate, height_in_degrees, width_in_degrees) ==
    [height_px |-> height_px, width_px |-> width_px, depth |-> depth,
     y_center_coordinate |-> y_center_coordinate,
     x_center_coordinate |-> x_center_coordinate,
     height_in_degrees |-> height_in_degrees,
     width_in_degrees |-> width_in_degrees]

\* Scanfield.as_field: a new Field with the seven attributes, the rest None
as_field(self) ==
    Field(self.height_px, self.width_px, self.depth, self.y_center_coordinate,
          self.x_center_coordinate, self.height_in_degrees,
          self.width_in_degrees, None, None, None, None, None, None, None)

---------------------------------------------------------------------------
(* class ROI *)

Min(S) == CHOOSE x \in S : \A y \in S : x <= y
Max(S) == CHOOSE x \in S : \A y \in S : y <= x

\* A raw header value is a list or a single item: [list |-> TRUE, val |-> <<..>>]
\* or [list |-> FALSE, val |-> item].  "if not isinstance(v, list): v = [v]"
as_list(v) == IF v.list THEN v.val ELSE <<v.val>>

\* ROI.is_discrete_plane_mode_on
is_discrete_plane_mode_on(info) == ~(info.discretePlaneMode = 0)

\* a sort that is not stable: x goes before the elements of equal key
insort_before_equal(s, x) ==
    LET k == Cardinality({i \in 1..Len(s) : s[i].depth < x.depth})
    IN  SubSeq(s, 1, k) \o <<x>> \o SubSeq(s, k + 1, Len(s))

\* where sorted() puts x among the already sorted s: after every element whose
\* key is not larger (Python's sort is stable)
insort(s, x) ==
    LET k == Cardinality({i \in 1..Len(s) : s[i].depth <= x.depth})
    IN  SubSeq(s, 1, k) \o <<x>> \o SubSeq(s, k + 1, Len(s))

\* sorted(scanfields, key=lambda scanfield: scanfield.depth)
RECURSIVE sorted(_)
sorted(s) ==
    IF s = <<>> THEN <<>>
    ELSE insort(sorted(SubSeq(s, 1, Len(s) - 1)), s[Len(s)])

\* ROI._create_scanfields: zip() stops at the shorter of the two lists
_create_scanfields(info) ==
    LET scanfield_infos == as_list(info.scanfields)
        scanfield_depths == as_list(info.zs)
        n == Min({Len(scanfield_infos), Len(scanfield_depths)})
        new_scanfield(i) ==
            Scanfield(scanfield_infos[i].pixelResolutionXY[2],
                      scanfield_infos[i].pixelResolutionXY[1],
                      scanfield_depths[i],
                      scanfield_infos[i].centerXY[2],
                      scanfield_infos[i].centerXY[1],
                      scanfield_infos[i].sizeXY[2],
                      scanfield_infos[i].sizeXY[1])
    IN  sorted([i \in 1..n |-> new_scanfield(i)])

\* ROI._scanfields is None until the first access, and the list from then on
NotCreated == [created |-> FALSE, list |-> <<>>]
Created(list) == [created |-> TRUE, list |-> list]

\* ROI.scanfields: the cached list, created at the first access
scanfields(info, cache) ==
    IF cache.created THEN cache.list ELSE _create_scanfields(info)

\* np.interp(x, xp, fp) as the exact fraction <<numerator, denominator>>:
\* fp's first value left of xp; else, with j the last point at or left of x,
\* fp[j] when j is the last point or x sits on it, else the value on the line
\* from point j to the next
interp(x, xp, fp) ==
    IF x < xp[1] THEN <<fp[1], 1>>
    ELSE LET j == Max({i \in 1..Len(xp) : xp[i] <= x})
         IN  IF j = Len(xp) \/ xp[j] = x
             THEN <<fp[j], 1>>
             ELSE <<fp[j] * (xp[j + 1] - xp[j]) + (x - xp[j]) * (fp[j + 1] - fp[j]),
                    xp[j + 1] - xp[j]>>

\* int(round(v / 2)) * 2 for the fraction v >= 0: round() takes a tie to the
\* even neighbour
round_to_even(v) ==
    LET den == 2 * v[2]
        q == v[1] \div den
        r == v[1] % den
        rounded == IF 2 * r < den THEN q
                   ELSE IF 2 * r > den THEN q + 1
                   ELSE IF q % 2 = 0 THEN q ELSE q + 1
    IN  rounded * 2

\* a float result of np.interp, in whole units of 1e-8 degree
in_units(v) == v[1] \div v[2]

\* what get_field_at hands back: a Field, None (absent), or an exception
Returned(field) == [raised |-> None, absent |-> FALSE, field |-> field]
Absent == [raised |-> None, absent |-> TRUE, field |-> None]
Raised(error) == [raised |-> error, absent |-> FALSE, field |-> None]

\* get_field_at, lines 107-110: the loop keeps the last Scanfield at the depth
discrete_field(sfs, scanning_depth) ==
    LET at_depth == {i \in 1..Len(sfs) : sfs[i].depth = scanning_depth}
    IN  IF at_depth = {} THEN Absent
        ELSE Returned(as_field(sfs[Max(at_depth)]))

\* the single Scanfield's Field handed back with the Scanfield's own depth
single_field_at_own_depth(sfs, scanning_depth) ==
    Returned(as_field(sfs[1]))

\* get_field_at, lines 112-114: the single Scanfield, at the depth asked for
single_field(sfs, scanning_depth) ==
    Returned([as_field(sfs[1]) EXCEPT !.depth = scanning_depth])

\* a range one depth too long: range(min, max + 2)
valid_range_too_long(scanfield_depths) ==
    LET ds == {scanfield_depths[i] : i \in 1..Len(scanfield_depths)}
    IN  Min(ds)..(Max(ds) + 1)

\* range(min(scanfield_depths), max(scanfield_depths) + 1)
valid_range(scanfield_depths) ==
    LET ds == {scanfield_depths[i] : i \in 1..Len(scanfield_depths)}
    IN  Min(ds)..Max(ds)

\* get_field_at, lines 120-151.  The assert of line 131 names xp, which is
\* bound nowhere: where asserts run, evaluating it raises NameError.
interpolated_field(sfs, debug, scanning_depth) ==
    LET scanfield_depths == [i \in 1..Len(sfs) |-> sfs[i].depth]
        at(attribute) ==
            interp(scanning_depth, scanfield_depths,
                   [i \in 1..Len(sfs) |-> sfs[i][attribute]])
    IN  IF debug THEN Raised("NameError")
        ELSE Returned(Field(round_to_even(at("height_px")),
                            round_to_even(at("width_px")),
                            scanning_depth,
                            in_units(at("y_center_coordinate")),
                            in_units(at("x_center_coordinate")),
                            in_units(at("height_in_degrees")),
                            in_units(at("width_in_degrees")),
                            None, None, None, None, None, None, None))

\* ROI.get_field_at, on the Scanfields self.scanfields gave
get_field_at(info, sfs, debug, scanning_depth) ==
    IF is_discrete_plane_mode_on(info)
    THEN discrete_field(sfs, scanning_depth)
    ELSE IF Len(sfs) = 1
    THEN single_field(sfs, scanning_depth)
    ELSE IF Len(sfs) = 0
    THEN Raised("ValueError")    \* min() of an empty list
    ELSE IF scanning_depth \in valid_range([i \in 1..Len(sfs) |-> sfs[i].depth])
    THEN interpolated_field(sfs, debug, scanning_depth)
    ELSE Absent

---------------------------------------------------------------------------
(* Bounds and the inputs drawn within them *)

\* join_with calls in one behaviour
MaxJoins == 2
\* entries in the header's 'scanfields' and 'zs' lists
MaxScanfields == 3

FieldIds == 1..3

\* what the variables of another specification hold
Idle == <<>>
\* no classification, no get_field_at call yet
NotAsked == [asked |-> FALSE]

\* The Field of ROI i as the scan builds it before any join: one slice in
\* each list, the output slices covering its own height_px x width_px at the
\* origin.  g.r is its pixel density: pixels per half degree.
InitialField(i, g) ==
    LET height_px == g.r * (g.h \div U)
        width_px == g.r * (g.w \div U)
    IN  Field(height_px, width_px, 0, g.y, g.x, g.h, g.w,
              <<slice(0, height_px, i)>>, <<slice(0, width_px, i)>>,
              <<slice(0, height_px, i)>>, <<slice(0, width_px, i)>>,
              0, <<i>>, <<i>>)

Sizes == {Deg, 2 * Deg}
\* centers <<y, x>>: the origin and one and a half degrees off it along an axis
Centers == {<<0, 0>>, <<-3 * U, 0>>, <<3 * U, 0>>, <<0, -3 * U>>, <<0, 3 * U>>}
Geometries ==
    {[h |-> h, w |-> w, y |-> c[1], x |-> c[2], r |-> r] :
        h \in Sizes, w \in Sizes, c \in Centers, r \in {1, 2}}

\* the first Field is centered at the origin with the lower pixel density; the
\* others lie around it
Anchors == {g \in Geometries : g.y = 0 /\ g.x = 0 /\ g.r = 1}

\* widths a hair apart: WideB is close to WideA as np.isclose(WideA, WideB)
\* has it and not as np.isclose(WideB, WideA) has it
WideA == 2 * Deg + 99000
WideB == 2 * Deg + 101002
\* y centers: one degree apart for two Fields one degree high each, one and a
\* half for Fields one and two degrees high
ContigGeometries ==
    [h : Sizes, w : {2 * Deg, WideA, WideB}, y : {0, 2 * U, 3 * U, 3 * U + 1000},
     x : {0, 3 * U}, r : {1}]

\* one entry of the header's 'scanfields': pixelResolutionXY and sizeXY are
\* (x, y) pairs, as is centerXY
ScanfieldInfos ==
    {[pixelResolutionXY |-> <<100, 100>>, centerXY |-> <<0, 0>>, sizeXY |-> <<Deg, Deg>>],
     [pixelResolutionXY |-> <<120, 200>>, centerXY |-> <<U, Deg>>, sizeXY |-> <<Deg, U>>],
     [pixelResolutionXY |-> <<64, 103>>, centerXY |-> <<Deg, U>>, sizeXY |-> <<U, U>>]}
Depths == {0, 5, 10}
QueryDepths == {-1, 0, 3, 5, 10, 11}

\* a header value over S: a bare item, or a list of up to MaxScanfields items
RawValues(S) ==
    {[list |-> FALSE, val |-> v] : v \in S}
    \cup {[list |-> TRUE, val |-> l] : l \in UNION {[1..k -> S] : k \in 0..MaxScanfields}}

---------------------------------------------------------------------------
(* Spec: Fields on the heap, joined by callers that check is_contiguous_to *)

Init ==
    /\ \E g1 \in Anchors, g2 \in Geometries, g3 \in Geometries :
          fields = [i \in FieldIds |-> InitialField(i, <<g1, g2, g3>>[i])]
    /\ orig = fields
    /\ absorbed = [i \in FieldIds |-> 0]
    /\ pxok = [i \in FieldIds |-> TRUE]
    /\ abuts = [i \in FieldIds |-> TRUE]
    /\ njoins = 0
    /\ pair = Idle /\ position = Idle /\ roi_info = Idle
    /\ _scanfields = NotCreated /\ __debug__ = TRUE /\ query = Idle

\* the two Fields have as many pixels along the edge they share
edges_match(self, field2) ==
    LET contiguity == _type_of_contiguity(self, field2)
    IN  /\ contiguity \in {ABOVE, BELOW} => self.width_px = field2.width_px
        /\ contiguity \in {LEFT, RIGHT} => self.height_px = field2.height_px

\* field2 lies where the answer of the classifier says: on that side of self,
\* the facing edges equally long and the centers half the sum of the sizes
\* apart, approximately
truly_abut(self, field2) ==
    LET contiguity == _type_of_contiguity(self, field2)
        dy == self.height_in_degrees \div 2 + field2.height_in_degrees \div 2
        dx == self.width_in_degrees \div 2 + field2.width_in_degrees \div 2
        same_width == isclose(self.width_in_degrees, field2.width_in_degrees)
        same_height == isclose(self.height_in_degrees, field2.height_in_degrees)
    IN  /\ contiguity = ABOVE =>
               same_width /\ isclose(self.y_center_coordinate, field2.y_center_coordinate + dy)
        /\ contiguity = BELOW =>
               same_width /\ isclose(field2.y_center_coordinate, self.y_center_coordinate + dy)
        /\ contiguity = LEFT =>
               same_height /\ isclose(self.x_center_coordinate, field2.x_center_coordinate + dx)
        /\ contiguity = RIGHT =>
               same_height /\ isclose(field2.x_center_coordinate, self.x_center_coordinate + dx)

\* fields[a].join_with(fields[b]), by a caller that checked is_contiguous_to
JoinWith(a, b) ==
    /\ njoins < MaxJoins
    /\ a # b
    /\ is_contiguous_to(fields[a], fields[b])
    /\ fields' = join_with(fields, a, b)
    /\ absorbed' = [absorbed EXCEPT ![a] = @ + absorbed[b] + 1]
    /\ pxok' = [pxok EXCEPT ![a] = @ /\ pxok[b] /\ edges_match(fields[a], fields[b])]
    /\ abuts' = [abuts EXCEPT ![a] = @ /\ abuts[b] /\ truly_abut(fields[a], fields[b])]
    /\ njoins' = njoins + 1
    /\ UNCHANGED <<orig, pair, position, roi_info, _scanfields, __debug__, query>>

Next == \E a \in FieldIds, b \in FieldIds : JoinWith(a, b)

Spec == Init /\ [][Next]_vars

---------------------------------------------------------------------------
(* SpecAnyCaller: the same heap, joined by callers that check nothing *)

\* fields[a].join_with(fields[b]), whatever _type_of_contiguity answers
JoinWithUnchecked(a, b) ==
    /\ njoins < MaxJoins
    /\ a # b
    /\ fields' = join_with(fields, a, b)
    /\ absorbed' = [absorbed EXCEPT ![a] = @ + absorbed[b] + 1]
    /\ pxok' = [pxok EXCEPT ![a] = @ /\ pxok[b] /\ edges_match(fields[a], fields[b])]
    /\ abuts' = [abuts EXCEPT ![a] = @ /\ abuts[b] /\ truly_abut(fields[a], fields[b])]
    /\ njoins' = njoins + 1
    /\ UNCHANGED <<orig, pair, position, roi_info, _scanfields, __debug__, query>>

NextAnyCaller == \E a \in FieldIds, b \in FieldIds : JoinWithUnchecked(a, b)

SpecAnyCaller == Init /\ [][NextAnyCaller]_vars

---------------------------------------------------------------------------
(* SpecContig: the classifier on a pair of Fields, asked in both directions *)

InitContig ==
    /\ \E g1 \in ContigGeometries, g2 \in ContigGeometries :
          pair = <<InitialField(1, g1), InitialField(2, g2)>>
    /\ position = NotAsked
    /\ fields = Idle /\ orig = Idle /\ absorbed = Idle /\ pxok = Idle
    /\ abuts = Idle /\ njoins = 0
    /\ roi_info = Idle /\ _scanfields = NotCreated /\ __debug__ = TRUE /\ query = Idle

TypeOfContiguity ==
    /\ ~position.asked
    /\ position' = [asked |-> TRUE,
                    ab |-> _type_of_contiguity(pair[1], pair[2]),
                    ba |-> _type_of_contiguity(pair[2], pair[1]),
                    contiguous |-> is_contiguous_to(pair[1], pair[2])]
    /\ UNCHANGED <<fields, orig, absorbed, pxok, abuts, njoins, pair,
                   roi_info, _scanfields, __debug__, query>>

NextContig == TypeOfContiguity

SpecContig == InitContig /\ [][NextContig]_vars

---------------------------------------------------------------------------
(* SpecROI: an ROI built from a raw header and asked for Fields at depths *)

InitROI ==
    /\ roi_info \in [discretePlaneMode : {0, 1},
                      scanfields : RawValues(ScanfieldInfos),
                      zs : RawValues(Depths)]
    /\ _scanfields = NotCreated
    /\ __debug__ \in BOOLEAN
    /\ query = NotAsked
    /\ fields = Idle /\ orig = Idle /\ absorbed = Idle /\ pxok = Idle
    /\ abuts = Idle /\ njoins = 0
    /\ pair = Idle /\ position = Idle

\* roi.get_field_at(d): the first call creates and caches the Scanfields
GetFieldAt(d) ==
    LET sfs == scanfields(roi_info, _scanfields)
    IN  /\ _scanfields' = Created(sfs)
        /\ query' = [asked |-> TRUE, depth |-> d,
                     result |-> get_field_at(roi_info, sfs, __debug__, d)]
        /\ UNCHANGED <<fields, orig, absorbed, pxok, abuts, njoins, pair, position,
                       roi_info, __debug__>>

NextROI == \E d \in QueryDepths : GetFieldAt(d)

SpecROI == InitROI /\ [][NextROI]_vars

---------------------------------------------------------------------------
(* Claims about join_with (Spec) *)

ListNames ==
    {"yslices", "xslices", "output_yslices", "output_xslices", "roi_ids", "offsets"}

\* C1: a.join_with(b) changes no attribute of any Field but the receiver a:
\* field2, and every other Field of the heap, is after the call what it was
\* before it, lists included, whatever the contiguity.
C1_JoinLeavesField2 ==
    [][\A a \in FieldIds, b \in FieldIds :
          JoinWith(a, b) => \A c \in FieldIds \ {a} : fields'[c] = fields[c]]_vars

\* C1, reached: a Field that absorbed Field b twice, or b and another Field,
\* while b, never a receiver, is still as constructed
C1_Witness ==
    \E a \in FieldIds, b \in FieldIds :
        /\ a # b /\ absorbed[a] = 2 /\ absorbed[b] = 0
        /\ \E i \in DOMAIN fields[a].roi_ids : fields[a].roi_ids[i] = b
        /\ fields[b] = orig[b]

\* C2: the six lists of a Field have one length, that length is one more than
\* the number of Fields absorbed, and has_contiguous_subfields holds exactly
\* of a Field that was joined at least once.
C2_ListLengths ==
    \A a \in FieldIds :
        /\ \A l \in ListNames : Len(fields[a][l]) = absorbed[a] + 1
        /\ has_contiguous_subfields(fields[a]) <=> absorbed[a] >= 1

\* C2, reached: a Field after two joins, with three entries in its lists, beside
\* one never joined
C2_Witness ==
    \E a \in FieldIds, b \in FieldIds :
        /\ absorbed[a] = 2 /\ Len(fields[a].offsets) = 3
        /\ has_contiguous_subfields(fields[a])
        /\ absorbed[b] = 0 /\ ~has_contiguous_subfields(fields[b])

\* C3: entry i of every list of a Field comes from one and the same original
\* Field, the one roi_ids[i] names: the source slices and the offset are that
\* Field's own, and the placement is that Field's placement, moved.
C3_EntriesAligned ==
    \A a \in FieldIds : \A i \in DOMAIN fields[a].roi_ids :
        LET f == fields[a]
            o == orig[f.roi_ids[i]]
        IN  /\ f.yslices[i] = o.yslices[1]
            /\ f.xslices[i] = o.xslices[1]
            /\ f.offsets[i] = o.offsets[1]
            /\ f.output_yslices[i].roi = f.roi_ids[i]
            /\ f.output_xslices[i].roi = f.roi_ids[i]
            /\ f.output_yslices[i].stop - f.output_yslices[i].start = o.height_px
            /\ f.output_xslices[i].stop - f.output_xslices[i].start = o.width_px

\* C3, reached: a Field joined twice whose own placement was moved down by a
\* Field above it, and that holds a placement moved right as well
C3_Witness ==
    \E a \in FieldIds :
        /\ absorbed[a] = 2
        /\ fields[a].output_yslices[1].start > 0
        /\ \E i \in DOMAIN fields[a].output_xslices : fields[a].output_xslices[i].start > 0

\* the placement rectangles lie in the height_px x width_px buffer, and every
\* pixel of the buffer is in exactly one of them
Tiles(f) ==
    LET n == Len(f.output_yslices)
        ys == f.output_yslices
        xs == f.output_xslices
    IN  /\ Len(xs) = n
        /\ \A i \in 1..n :
              /\ 0 <= ys[i].start /\ ys[i].start <= ys[i].stop /\ ys[i].stop <= f.height_px
              /\ 0 <= xs[i].start /\ xs[i].start <= xs[i].stop /\ xs[i].stop <= f.width_px
        /\ \A row \in 0..(f.height_px - 1), col \in 0..(f.width_px - 1) :
              Cardinality({i \in 1..n : /\ ys[i].start <= row /\ row < ys[i].stop
                                        /\ xs[i].start <= col /\ col < xs[i].stop}) = 1

\* the Field was built from three different Fields, each join one of Fields
\* that truly abut
BuiltFromThreeAbutting(a) ==
    /\ absorbed[a] = 2 /\ abuts[a]
    /\ Cardinality({fields[a].roi_ids[i] : i \in DOMAIN fields[a].roi_ids}) = 3

\* C4 as claimed: the placements of a Field built by two joins of contiguous
\* Fields lie in its buffer, are disjoint and cover it.  Stated of the joins
\* the claim is surest of: three different Fields, each pair truly abutting.
C4_TwoJoinsTile ==
    \A a \in FieldIds : BuiltFromThreeAbutting(a) => Tiles(fields[a])

\* C4, amended: they do when, at each of its joins, the two Fields had as many
\* pixels along the shared edge (equal width_px above or below, equal
\* height_px left or right).
C4_TwoMatchingJoinsTile ==
    \A a \in FieldIds : absorbed[a] = 2 /\ pxok[a] => Tiles(fields[a])

\* C4, reached: a Field built from three different abutting Fields along
\* matching edges, its own placement moved by a join, and its buffer tiled
C4_Witness ==
    \E a \in FieldIds :
        /\ BuiltFromThreeAbutting(a) /\ pxok[a]
        /\ fields[a].output_yslices[1].start > 0 \/ fields[a].output_xslices[1].start > 0
        /\ Tiles(fields[a])

\* C12: a.join_with(b) when a._type_of_contiguity(b) is NONCONTIGUOUS fails
\* and changes nothing of a: its geometry and its six lists are after the call
\* what they were before it, none of the lists longer than another.
C12_NoncontiguousJoinChangesNothing ==
    [][\A a \in FieldIds, b \in FieldIds :
          /\ JoinWithUnchecked(a, b)
          /\ _type_of_contiguity(fields[a], fields[b]) = NONCONTIGUOUS
          => fields'[a] = fields[a]]_vars

---------------------------------------------------------------------------
(* Claims about the classifier (SpecContig) *)

\* the widths in degrees are approximately equal and the y centers are half
\* the sum of the heights apart, approximately
vertically_contiguous(f1, f2) ==
    LET expected_distance == f1.height_in_degrees \div 2 + f2.height_in_degrees \div 2
    IN  /\ isclose(f1.width_in_degrees, f2.width_in_degrees)
        /\ \/ isclose(f1.y_center_coordinate, f2.y_center_coordinate + expected_distance)
           \/ isclose(f2.y_center_coordinate, f1.y_center_coordinate + expected_distance)

\* the heights in degrees are approximately equal and the x centers are half
\* the sum of the widths apart, approximately
horizontally_contiguous(f1, f2) ==
    LET expected_distance == f1.width_in_degrees \div 2 + f2.width_in_degrees \div 2
    IN  /\ isclose(f1.height_in_degrees, f2.height_in_degrees)
        /\ \/ isclose(f1.x_center_coordinate, f2.x_center_coordinate + expected_distance)
           \/ isclose(f2.x_center_coordinate, f1.x_center_coordinate + expected_distance)

\* C5: if A._type_of_contiguity(B) is ABOVE then B._type_of_contiguity(A) is
\* BELOW, and if it is BELOW then the reverse call gives ABOVE.
C5_DirectionSymmetric ==
    position.asked =>
        /\ position.ab = ABOVE => position.ba = BELOW
        /\ position.ab = BELOW => position.ba = ABOVE

\* C6: LEFT or RIGHT is answered only for Fields of approximately equal
\* heights whose x centers are half the sum of the widths apart; and when the
\* pair is contiguous neither vertically nor horizontally the answer is
\* NONCONTIGUOUS and is_contiguous_to is false.
C6_SidewaysOnlyWhenAdjacent ==
    position.asked =>
        /\ position.ab \in {LEFT, RIGHT} => horizontally_contiguous(pair[1], pair[2])
        /\ ~vertically_contiguous(pair[1], pair[2])
               /\ ~horizontally_contiguous(pair[1], pair[2])
           => position.ab = NONCONTIGUOUS /\ ~position.contiguous

\* C13: for Fields of approximately equal widths in degrees whose y centers
\* are half the sum of the heights apart, approximately, the classifier
\* answers ABOVE when self's center is the larger one and BELOW when field2's
\* is, Fields of equal heights included.
C13_StackedIsAboveOrBelow ==
    position.asked =>
        LET self == pair[1]
            field2 == pair[2]
            expected_distance == self.height_in_degrees \div 2
                                 + field2.height_in_degrees \div 2
        IN  isclose(self.width_in_degrees, field2.width_in_degrees) =>
                /\ isclose(self.y_center_coordinate,
                           field2.y_center_coordinate + expected_distance)
                   => position.ab = ABOVE
                /\ isclose(field2.y_center_coordinate,
                           self.y_center_coordinate + expected_distance)
                   => position.ab = BELOW

---------------------------------------------------------------------------
(* Claims about ROI.get_field_at (SpecROI) *)

\* the Scanfields zip() pairs up in the raw header, in the header's order
RawCount == Min({Len(as_list(roi_info.scanfields)), Len(as_list(roi_info.zs))})
RawDepth(i) == as_list(roi_info.zs)[i]
RawInfo(i) == as_list(roi_info.scanfields)[i]

\* the Field has the pixel sizes, centers and sizes in degrees of the header's
\* i-th scanfield
HasGeometryOfRaw(field, i) ==
    /\ field.height_px = RawInfo(i).pixelResolutionXY[2]
    /\ field.width_px = RawInfo(i).pixelResolutionXY[1]
    /\ field.y_center_coordinate = RawInfo(i).centerXY[2]
    /\ field.x_center_coordinate = RawInfo(i).centerXY[1]
    /\ field.height_in_degrees = RawInfo(i).sizeXY[2]
    /\ field.width_in_degrees = RawInfo(i).sizeXY[1]

\* get_field_at returned a Field: no exception, not None
GotField == query.result.raised = None /\ ~query.result.absent
\* get_field_at returned None
GotNone == query.result.raised = None /\ query.result.absent

Discrete == is_discrete_plane_mode_on(roi_info)
RawDepths == {RawDepth(i) : i \in 1..RawCount}

\* C7 as claimed: an ROI with exactly one Scanfield, whatever its
\* discretePlaneMode, answers every depth d with a Field of that Scanfield's
\* geometry and depth d.
C7_SingleScanfieldAnyMode ==
    query.asked /\ RawCount = 1 =>
        /\ GotField
        /\ HasGeometryOfRaw(query.result.field, 1)
        /\ query.result.field.depth = query.depth

\* C7, amended: it does so with discretePlaneMode off; with discretePlaneMode
\* on it does so at the Scanfield's own depth and answers None at any other.
C7_SingleScanfield ==
    query.asked /\ RawCount = 1 =>
        IF Discrete /\ query.depth # RawDepth(1)
        THEN GotNone
        ELSE /\ GotField
             /\ HasGeometryOfRaw(query.result.field, 1)
             /\ query.result.field.depth = query.depth

\* C7, reached: a continuous ROI with one Scanfield asked for another depth
C7_Witness ==
    /\ query.asked /\ RawCount = 1 /\ ~Discrete
    /\ query.depth # RawDepth(1)
    /\ GotField /\ query.result.field.depth = query.depth

\* C8 as claimed: a continuous ROI with one Scanfield or more answers None,
\* raising nothing, to every depth below the least or above the largest
\* Scanfield depth.
C8_OutsideIsAbsentFromOne ==
    /\ query.asked /\ ~Discrete /\ RawCount >= 1
    /\ query.depth < Min(RawDepths) \/ query.depth > Max(RawDepths)
    => GotNone

\* C8, amended: a continuous ROI with two Scanfields or more does.
C8_OutsideIsAbsent ==
    /\ query.asked /\ ~Discrete /\ RawCount >= 2
    /\ query.depth < Min(RawDepths) \/ query.depth > Max(RawDepths)
    => GotNone

\* C8, reached: a continuous ROI with Scanfields at two depths, asked just
\* above the larger, answers None
C8_Witness ==
    /\ query.asked /\ ~Discrete /\ RawCount >= 2
    /\ Cardinality(RawDepths) >= 2
    /\ query.depth = Max(RawDepths) + 1
    /\ GotNone

\* C9: a discrete-plane-mode ROI answers depth d with the geometry of the
\* last scanfield, in the header's order, among those at depth d, and with
\* None when there is none.
C9_DiscreteLastDefinedWins ==
    query.asked /\ Discrete =>
        LET at_depth == {i \in 1..RawCount : RawDepth(i) = query.depth}
        IN  IF at_depth = {} THEN GotNone
            ELSE /\ GotField
                 /\ HasGeometryOfRaw(query.result.field, Max(at_depth))
                 /\ query.result.field.depth = query.depth

\* C9, reached: two different scanfields at the depth asked for, a scanfield
\* at a smaller depth and one at a larger depth among or after them
C9_Witness ==
    /\ query.asked /\ Discrete /\ GotField
    /\ \E i \in 1..RawCount, j \in 1..RawCount :
          /\ i < j
          /\ RawDepth(i) = query.depth /\ RawDepth(j) = query.depth
          /\ RawInfo(i) # RawInfo(j)
    /\ \E k \in 1..RawCount : RawDepth(k) # query.depth

\* n is the multiple of 2 nearest to the fraction v (either one at a tie)
NearestEven(n, v) ==
    /\ n % 2 = 0
    /\ Abs(n * v[2] - v[1]) <= v[2]

\* C10: a continuous ROI with two or more Scanfields at distinct depths
\* answers every depth d from the least to the largest of them with a Field
\* of depth d whose height_px and width_px are the pixel sizes interpolated
\* at d, rounded to the nearest multiple of 2.
C10_InterpolatedEvenSizes ==
    /\ query.asked /\ ~Discrete /\ RawCount >= 2
    /\ Cardinality(RawDepths) = RawCount
    /\ Min(RawDepths) <= query.depth /\ query.depth <= Max(RawDepths)
    => LET sfs == _scanfields.list
           depths == [i \in 1..Len(sfs) |-> sfs[i].depth]
           heights == [i \in 1..Len(sfs) |-> sfs[i].height_px]
           widths == [i \in 1..Len(sfs) |-> sfs[i].width_px]
       IN  /\ GotField
           /\ query.result.field.depth = query.depth
           /\ NearestEven(query.result.field.height_px, interp(query.depth, depths, heights))
           /\ NearestEven(query.result.field.width_px, interp(query.depth, depths, widths))

\* the header's 'scanfields' and 'zs' lists are not of one length
MismatchedLengths ==
    Len(as_list(roi_info.scanfields)) # Len(as_list(roi_info.zs))

\* C11: an ROI built from a header whose 'scanfields' and 'zs' lists have
\* different lengths is no usable ROI: its construction is a fatal error, so
\* no get_field_at call on it ever returns a Field, built from the entries
\* that pair up while the unmatched ones are dropped.
C11_MismatchedListsAreFatal ==
    MismatchedLengths /\ query.asked => ~GotField

=============================================================================
